---- MODULE Spec2Model ----
(***************************************************************************)
(* Model of ui/html/form.js: the schema-driven form renderer and its       *)
(* submission pipeline (getUrlParams, showSection, showError,              *)
(* generateForm, renderForm, the submit handler and the fill-again         *)
(* handler).                                                               *)
(*                                                                         *)
(* JavaScript values are modelled as follows.  A string that the code only *)
(* ever tests with `||` or for truthiness is a TLA+ string, and the empty  *)
(* string "" also stands for an absent (undefined / null) value, since the *)
(* code treats the two alike.  Objects are records, arrays are sequences.  *)
(***************************************************************************)
EXTENDS Integers, Sequences, FiniteSets, TLC

\* ------------------------------------------------------------------ bounds
MaxFields == 2
MaxSubmits == 2

\* ------------------------------------------------------- small value sets
Range(s) == {s[i] : i \in DOMAIN s}

\* property names by position in the schema's `properties` object
PropertyNames == <<"username", "email", "bio", "note">>

Types == {"string", "boolean", "integer", "number"}
Formats == {"", "password", "textarea", "email"}
UiWidgets == {"", "password", "textarea"}
EnumValues == <<"red", "blue">>

\* a JSON-Schema property: fieldSchema of renderForm
FieldSchema(type, format, hasEnum) ==
    [title |-> "", description |-> "", type |-> type, format |-> format,
     hasEnum |-> hasEnum, enum |-> IF hasEnum THEN EnumValues ELSE <<>>]

\* uiSchema[fieldName] || {}: "ui:widget" and "ui:placeholder"; a missing
\* entry is the entry with neither
UiField(widget, placeholder) == [widget |-> widget, placeholder |-> placeholder]

\* one entry of Object.entries(properties), with its uiSchema entry
Property(name, fs, ui) == [name |-> name, fieldSchema |-> fs, ui |-> ui]

\* the schemaData object a server hands to renderForm
\*   hasSchema = FALSE   : the body has no `schema` key
\*   hasUiSchema = FALSE : the body has no `uiSchema` key
SchemaData(title, hasSchema, props, required, hasUiSchema, error) ==
    [title |-> title, description |-> "", submitButtonText |-> "",
     hasSchema |-> hasSchema, properties |-> props, required |-> required,
     hasUiSchema |-> hasUiSchema, error |-> error]

\* ------------------------------------------------------------ renderForm
\* Widget with the format consulted before the UI hint
WidgetFormatFirst(uiField, fieldSchema) ==
    IF fieldSchema.format # "" THEN fieldSchema.format
    ELSE IF uiField.widget # "" THEN uiField.widget
    ELSE fieldSchema.type

\* line 130: the effective widget
Widget(uiField, fieldSchema) ==
    IF uiField.widget # "" THEN uiField.widget
    ELSE IF fieldSchema.format # "" THEN fieldSchema.format
    ELSE fieldSchema.type

\* a DOM control: tag, its `type` property, name, required, placeholder,
\* rows (0 when not a textarea) and the options of a select
Control(tag, type, name, required, placeholder, rows, options) ==
    [tag |-> tag, type |-> type, name |-> name, required |-> required,
     placeholder |-> placeholder, rows |-> rows, options |-> options]

Option(value, text) == [value |-> value, text |-> text]

LabelText(fieldName, fieldSchema) ==
    IF fieldSchema.title # "" THEN fieldSchema.title ELSE fieldName

\* lines 132-194: the control built for one property
MakeInput(fieldName, fieldSchema, uiField, isRequired) ==
    LET widget == Widget(uiField, fieldSchema) IN
    IF fieldSchema.hasEnum
    THEN Control("select", "select-one", fieldName, isRequired, "", 0,
                 <<Option("", "Select " \o LabelText(fieldName, fieldSchema))>>
                 \o [i \in DOMAIN fieldSchema.enum |->
                        Option(fieldSchema.enum[i], fieldSchema.enum[i])])
    ELSE IF fieldSchema.type = "boolean"
    THEN Control("input", "checkbox", fieldName, FALSE, "", 0, <<>>)
    ELSE IF fieldSchema.type \in {"integer", "number"}
    THEN Control("input", "text", fieldName, isRequired,
                 IF uiField.placeholder = "" /\ fieldSchema.type = "integer"
                 THEN "Enter a number" ELSE "", 0, <<>>)
    ELSE IF widget = "password"
    THEN Control("input", "password", fieldName, isRequired, "", 0, <<>>)
    ELSE IF widget = "textarea"
    THEN Control("textarea", "textarea", fieldName, isRequired, "", 4, <<>>)
    ELSE Control("input", "text", fieldName, isRequired,
                 uiField.placeholder, 0, <<>>)

\* FieldDiv with the required flag also set on a checkbox
FieldDivRequiredToggle(prop, required) ==
    LET isRequired == prop.name \in required
        input == MakeInput(prop.name, prop.fieldSchema, prop.ui, isRequired) IN
    [label |-> LabelText(prop.name, prop.fieldSchema),
     marker |-> isRequired,
     for |-> prop.name,
     help |-> prop.fieldSchema.description,
     input |-> [input EXCEPT !.required = isRequired]]

\* lines 115-199: the div.form-field appended for one property
FieldDiv(prop, required) ==
    LET isRequired == prop.name \in required IN
    [label |-> LabelText(prop.name, prop.fieldSchema),
     marker |-> isRequired,
     for |-> prop.name,
     help |-> prop.fieldSchema.description,
     input |-> MakeInput(prop.name, prop.fieldSchema, prop.ui, isRequired)]

\* renderForm throws a TypeError at line 111 when the body has no schema,
\* and at line 129 for the first property when it has no uiSchema
RenderThrows(schemaData) ==
    \/ ~schemaData.hasSchema
    \/ ~schemaData.hasUiSchema /\ Len(schemaData.properties) > 0

\* the children of #form-fields when renderForm returns or throws: nothing
\* is appended before the throw, since line 199 follows line 129
RenderedFields(schemaData) ==
    IF RenderThrows(schemaData) THEN <<>>
    ELSE [i \in DOMAIN schemaData.properties |->
             FieldDiv(schemaData.properties[i], schemaData.required)]

\* ----------------------------------------------------------- page location
\* window.location.pathname as a sequence of characters
FormPrefix == <<"/", "f", "o", "r", "m", "/">>

Alnum ==
    {"a","b","c","d","e","f","g","h","i","j","k","l","m","n","o","p","q","r",
     "s","t","u","v","w","x","y","z","A","B","C","D","E","F","G","H","I","J",
     "K","L","M","N","O","P","Q","R","S","T","U","V","W","X","Y","Z",
     "0","1","2","3","4","5","6","7","8","9"}

RECURSIVE Str(_)
Str(cs) == IF cs = <<>> THEN "" ELSE Head(cs) \o Str(Tail(cs))

\* line 13: path.match(/^\/form\/([a-zA-Z0-9]+)$/); the captured group, or
\* "" when the path does not match (a match never captures "")
ShortUrlMatch(path) ==
    IF /\ Len(path) > Len(FormPrefix)
       /\ SubSeq(path, 1, Len(FormPrefix)) = FormPrefix
       /\ \A i \in (Len(FormPrefix) + 1)..Len(path) : path[i] \in Alnum
    THEN Str(SubSeq(path, Len(FormPrefix) + 1, Len(path)))
    ELSE ""

RootPath == <<"/">>
ShortPath == <<"/", "f", "o", "r", "m", "/", "s", "1">>
DashPath == <<"/", "f", "o", "r", "m", "/", "a", "-", "b">>

\* window.location: the query parameters (absent = "") and the path
Location(fields, context, session_id, path) ==
    [fields |-> fields, context |-> context, session_id |-> session_id, path |-> path]

Locations ==
    {Location("", "", "", RootPath),
     Location("name,email", "", "", RootPath),
     Location("name,email", "signup", "", RootPath),
     Location("name,email", "", "q1", RootPath),
     Location("", "", "q1", RootPath),
     Location("", "", "", ShortPath),
     Location("", "", "q1", ShortPath),
     Location("name,email", "signup", "", ShortPath),
     Location("name,email", "", "", DashPath),
     Location("", "", "", DashPath)}

\* lines 8-21
GetUrlParams(loc) ==
    LET shortUrlMatch == ShortUrlMatch(loc.path) IN
    [fields |-> loc.fields,
     context |-> loc.context,
     sessionId |-> IF loc.session_id # "" THEN loc.session_id ELSE shortUrlMatch,
     isShortUrl |-> shortUrlMatch # ""]

\* the params local of generateForm once the call has returned
NoParams == [fields |-> "", context |-> "", sessionId |-> "", isShortUrl |-> FALSE]

\* ------------------------------------------------------------------ the DOM
Sections == {"loading", "form-container", "success-container", "error"}

\* ShowSection without the loop that hides the sections
ShowSectionNoHide(dom, id) ==
    [dom EXCEPT !.visible = @ \cup ({id} \cap Sections)]

\* lines 24-30: every section is hidden, then the named one is shown
ShowSection(dom, id) ==
    [dom EXCEPT !.visible = IF id \in Sections THEN {id} ELSE {}]

\* lines 32-35
ShowError(dom, message) ==
    ShowSection([dom EXCEPT !.errorMessage = message], "error")

\* engine-supplied exception texts (all non-empty)
TypeErrorMsg == "Cannot read properties of undefined"
FetchRejectMsg == "Failed to fetch"
JsonErrorMsg == "Unexpected token in JSON"

\* RenderForm that swallows the exception of its loop and shows the form
RenderFormSwallow(dom, schemaData) ==
    LET d1 == [dom EXCEPT
                 !.formTitle = schemaData.title,
                 !.formDescription = schemaData.description,
                 !.submitBtn = IF schemaData.submitButtonText # ""
                               THEN schemaData.submitButtonText ELSE "Submit",
                 !.formFields = <<>>] IN
    IF RenderThrows(schemaData)
    THEN [dom |-> ShowSection(d1, "form-container"), threw |-> FALSE]
    ELSE [dom |-> ShowSection([d1 EXCEPT !.formFields = RenderedFields(schemaData)],
                              "form-container"),
          threw |-> FALSE]

\* lines 101-203: the DOM after renderForm(schemaData) and whether it threw
RenderForm(dom, schemaData) ==
    LET d1 == [dom EXCEPT
                 !.formTitle = schemaData.title,
                 !.formDescription = schemaData.description,
                 !.submitBtn = IF schemaData.submitButtonText # ""
                               THEN schemaData.submitButtonText ELSE "Submit",
                 !.formFields = <<>>] IN
    IF RenderThrows(schemaData)
    THEN [dom |-> d1, threw |-> TRUE]
    ELSE [dom |-> ShowSection([d1 EXCEPT !.formFields = RenderedFields(schemaData)],
                              "form-container"),
          threw |-> FALSE]

\* RenderOrCatch with renderForm called outside the try block
RenderOrCatchNoCatch(dom, schemaData) == RenderForm(dom, schemaData).dom

\* lines 94-97: renderForm inside generateForm's try/catch
RenderOrCatch(dom, schemaData) ==
    LET r == RenderForm(dom, schemaData) IN
    IF r.threw
    THEN ShowError(r.dom, "Error generating form: " \o TypeErrorMsg)
    ELSE r.dom

\* ------------------------------------------------------ the submit handler
\* JavaScript values of a payload: a boolean, a string, a number (by its
\* JSON text) or null
JBool(b) == [kind |-> "boolean", b |-> b, s |-> ""]
JStr(s) == [kind |-> "string", b |-> FALSE, s |-> s]
JNum(text) == [kind |-> "number", b |-> FALSE, s |-> text]
JNull == [kind |-> "null", b |-> FALSE, s |-> ""]

\* what a user can type into a free-text control
TextValues == {"", "5"}

\* parseFloat on the texts a user can type
ParseFloat(text) == IF text = "5" THEN JNum("5") ELSE JNum("NaN")

\* the state a user can leave a control in: checked (checkboxes) and value
ControlStates(control) ==
    IF control.type = "checkbox"
    THEN [checked : BOOLEAN, value : {"on"}]
    ELSE IF control.tag = "select"
    THEN [checked : {FALSE}, value : {control.options[i].value : i \in DOMAIN control.options}]
    ELSE [checked : {FALSE}, value : TextValues]

\* every way to fill the rendered form
FormStates(formFields) ==
    {st \in [DOMAIN formFields -> [checked : BOOLEAN, value : TextValues \cup {"on"} \cup Range(EnumValues)]] :
        \A i \in DOMAIN formFields : st[i] \in ControlStates(formFields[i].input)}

\* the browser's constraint validation, which precedes the submit event:
\* a required control must have a value
CheckValidity(formFields, st) ==
    \A i \in DOMAIN formFields :
        formFields[i].input.required => st[i].value # ""

\* line 209: new FormData(form).entries(): one entry per control in
\* document order, except that an unchecked checkbox contributes none
RECURSIVE FormDataEntries(_, _, _)
FormDataEntries(formFields, st, i) ==
    IF i > Len(formFields) THEN <<>>
    ELSE LET control == formFields[i].input
             rest == FormDataEntries(formFields, st, i + 1) IN
         IF control.type = "checkbox" /\ ~st[i].checked THEN rest
         ELSE <<[key |-> control.name, value |-> st[i].value]>> \o rest

\* data[key] = val on an object kept as its entries in insertion order
Put(data, key, val) ==
    IF \E j \in DOMAIN data : data[j].key = key
    THEN [j \in DOMAIN data |->
             IF data[j].key = key THEN [key |-> key, val |-> val] ELSE data[j]]
    ELSE Append(data, [key |-> key, val |-> val])

HasKey(data, key) == \E j \in DOMAIN data : data[j].key = key

Get(data, key) == data[CHOOSE j \in DOMAIN data : data[j].key = key].val

\* line 213: form.querySelector('[name="key"]'): the first such control
QuerySelector(formFields, key) ==
    LET i == CHOOSE k \in DOMAIN formFields :
                 /\ formFields[k].input.name = key
                 /\ \A m \in 1..(k - 1) : formFields[m].input.name # key IN
    i

\* lines 214-220: the typed value of one entry
TypedValue(control, st, value) ==
    IF control.type = "checkbox" THEN JBool(st.checked)
    ELSE IF control.type = "number"
    THEN (IF st.value # "" THEN ParseFloat(st.value) ELSE JNull)
    ELSE JStr(value)

\* lines 210-221: the loop over the entries
RECURSIVE CollectData(_, _, _, _)
CollectData(formFields, st, entries, data) ==
    IF entries = <<>> THEN data
    ELSE LET e == Head(entries)
             k == QuerySelector(formFields, e.key) IN
         CollectData(formFields, st, Tail(entries),
                     Put(data, e.key, TypedValue(formFields[k].input, st[k], e.value)))

\* lines 223-227: the session id is added under _session_id
AddSessionId(data, params) ==
    IF params.sessionId # "" THEN Put(data, "_session_id", JStr(params.sessionId))
    ELSE data

\* lines 209-227: the payload of one submit event
BuildData(formFields, st, loc) ==
    AddSessionId(CollectData(formFields, st, FormDataEntries(formFields, st, 1), <<>>),
                 GetUrlParams(loc))

\* ------------------------------------------------------ server responses
\* the properties a generated schema is drawn from: a toggle, a numeric
\* field and a text field
MenuProps ==
    <<Property("agree", FieldSchema("boolean", "", FALSE), UiField("", "")),
      Property("age", FieldSchema("integer", "", FALSE), UiField("", "")),
      Property("_session_id", FieldSchema("string", "", FALSE), UiField("", ""))>>

\* sequences of at most MaxFields distinct menu properties
MenuOrders ==
    UNION {{o \in [1..n -> DOMAIN MenuProps] :
               \A i, j \in 1..n : i # j => o[i] # o[j]} : n \in 0..MaxFields}

PropsOf(o) == [i \in DOMAIN o |-> MenuProps[o[i]]]

\* well-formed schema bodies: nothing required, or the first property
RequiredChoices(props) ==
    {{}} \cup {{props[i].name} : i \in {1} \cap DOMAIN props}

ServerSchemas ==
    UNION {{SchemaData("Sign up", TRUE, PropsOf(o), req, TRUE, "") :
               req \in RequiredChoices(PropsOf(o))} : o \in MenuOrders}

\* bodies renderForm cannot render: an error object, and a schema without
\* uiSchema
BrokenSchemas ==
    {SchemaData("", FALSE, <<>>, {}, FALSE, "quota exceeded"),
     SchemaData("Sign up", TRUE, <<MenuProps[2]>>, {}, FALSE, "")}

SchemaBodies == ServerSchemas \cup BrokenSchemas

NoSchemaData == SchemaData("", FALSE, <<>>, {}, FALSE, "")

\* a response: fetch rejected, the body is not JSON, or a JSON body with
\* response.ok
Response(kind, ok, body) == [kind |-> kind, ok |-> ok, body |-> body]

\* the body of /api/form-config/{id}
ConfigBody(success, error, hasFields, fields, context, hasSchema, schema) ==
    [success |-> success, error |-> error, hasFields |-> hasFields,
     fields |-> fields, context |-> context, hasSchema |-> hasSchema,
     schema |-> schema]

FailedConfigBody(success, error) ==
    ConfigBody(success, error, FALSE, <<>>, "", FALSE, NoSchemaData)

ConfigResponses ==
    {Response("reject", FALSE, FailedConfigBody(FALSE, "")),
     Response("badjson", TRUE, FailedConfigBody(FALSE, ""))}
    \cup {Response("json", FALSE, FailedConfigBody(TRUE, e)) : e \in {"", "Session expired"}}
    \cup {Response("json", TRUE, FailedConfigBody(FALSE, e)) : e \in {"", "Session expired"}}
    \cup {Response("json", TRUE, FailedConfigBody(TRUE, ""))}
    \cup {Response("json", TRUE, ConfigBody(TRUE, "", TRUE, f, "signup", FALSE, NoSchemaData)) :
            f \in {<<>>, <<"name", "email">>}}
    \cup {Response("json", TRUE, ConfigBody(TRUE, "", TRUE, f, "signup", TRUE, sd)) :
            f \in {<<>>, <<"age">>}, sd \in SchemaBodies}

\* the body of /api/schema: a schema, or an object with an error string
SchemaResponses ==
    {Response("reject", FALSE, NoSchemaData),
     Response("badjson", TRUE, NoSchemaData)}
    \cup {Response("json", FALSE, SchemaData("", FALSE, <<>>, {}, FALSE, e)) :
            e \in {"", "quota exceeded"}}
    \cup {Response("json", TRUE, sd) : sd \in SchemaBodies}

\* the body of /api/submit: only its error string is read
SubmitResponses ==
    {Response("reject", FALSE, ""), Response("badjson", TRUE, ""),
     Response("json", FALSE, ""), Response("json", FALSE, "Validation failed"),
     Response("json", TRUE, "")}

\* fields.join(",")
RECURSIVE Join(_)
Join(fields) ==
    IF fields = <<>> THEN ""
    ELSE IF Len(fields) = 1 THEN fields[1]
    ELSE fields[1] \o "," \o Join(Tail(fields))

\* a request in flight: its endpoint, the session id or query it carries,
\* the payload of a submit, and (history) the state the user left the
\* controls in when submitting
Request(ep, arg, data, form) == [ep |-> ep, arg |-> arg, data |-> data, form |-> form]

ConfigRequest(sessionId) ==
    Request("form-config", [fields |-> "", context |-> "", sessionId |-> sessionId], <<>>, <<>>)

SchemaRequest(params) ==
    Request("schema", [fields |-> params.fields, context |-> params.context, sessionId |-> ""], <<>>, <<>>)

SubmitRequest(data, form) ==
    Request("submit", [fields |-> "", context |-> "", sessionId |-> ""], data, form)

Remove(seq, i) == SubSeq(seq, 1, i - 1) \o SubSeq(seq, i + 1, Len(seq))

\* ------------------------------------------------------------ JSON text
JsonValue(val) ==
    IF val.kind = "boolean" THEN (IF val.b THEN "true" ELSE "false")
    ELSE IF val.kind = "string" THEN "\"" \o val.s \o "\""
    ELSE IF val.kind = "number" /\ val.s # "NaN" THEN val.s
    ELSE "null"

\* JSON.stringify(data): the request body
RECURSIVE JsonMembers(_, _, _)
JsonMembers(data, sep, colon) ==
    IF data = <<>> THEN ""
    ELSE "\"" \o Head(data).key \o "\"" \o colon \o JsonValue(Head(data).val)
         \o (IF Tail(data) = <<>> THEN "" ELSE "," \o sep \o JsonMembers(Tail(data), sep, colon))

JsonStringify(data) ==
    IF data = <<>> THEN "{}" ELSE "{" \o JsonMembers(data, "", ":") \o "}"

\* JSON.stringify(data, null, 2): the echo shown on success
JsonPretty(data) ==
    IF data = <<>> THEN "{}"
    ELSE "{\n  " \o JsonMembers(data, "\n  ", ": ") \o "\n}"

\* --------------------------------------------------------------- the state
VARIABLES
    location,      \* window.location: query parameters and path
    pc,            \* where generateForm is: start, awaitConfig, awaitSchema, done
    params,        \* the params local of generateForm across its awaits
    dom,           \* the document: visible sections and the texts set by the code
    inflight,      \* requests issued and not yet answered, in issue order
    issued,        \* requests issued so far, per endpoint
    submitEvents,  \* submit events handled so far
    lookup,        \* history: the body of the successful config lookup, if any
    rendered,      \* history: the schemaData of each renderForm that returned
    answered       \* history: the response handled last and its endpoint

vars == <<location, pc, params, dom, inflight, issued, submitEvents, lookup, rendered, answered>>

MissingFieldsMsg == "No fields specified. Add ?fields=field1,field2 to the URL."

BlankDom(visible) ==
    [visible |-> visible, errorMessage |-> "", formTitle |-> "",
     formDescription |-> "", submitBtn |-> "", formFields |-> <<>>,
     successTitle |-> "", outputJson |-> ""]

\* the page as served: which sections index.html shows at first is not
\* fixed by form.js
Init ==
    /\ location \in Locations
    /\ pc = "start"
    /\ params = NoParams
    /\ dom \in {BlankDom(v) : v \in SUBSET Sections}
    /\ inflight = <<>>
    /\ issued = [config |-> 0, schema |-> 0, submit |-> 0]
    /\ submitEvents = 0
    /\ lookup = <<>>
    /\ rendered = <<>>
    /\ answered = <<>>

\* the endpoint and the response a handler resumes with
Answer(request, response) == <<[ep |-> request.ep, response |-> response]>>

\* ---------------------------------------------------------- generateForm
\* line 43
NeedsLookup(p) == p.isShortUrl /\ p.sessionId # ""

\* MissingFields with the check left out
MissingFieldsNever(p) == FALSE

\* line 68
MissingFields(p) == p.fields = ""

\* NeedsSchemaFetch ignoring the pre-generated schema
NeedsSchemaFetchAlways(hasPre) == TRUE

\* line 79: the schema-generation request is made only without a
\* pre-generated schema
NeedsSchemaFetch(hasPre) == ~hasPre

\* Resolved without the showSection("loading") of line 73
ResolvedNoLoading(p, hasPre, pre, net) ==
    IF MissingFields(p)
    THEN /\ dom' = ShowError(dom, MissingFieldsMsg)
         /\ pc' = "done"
         /\ params' = NoParams
         /\ inflight' = net
         /\ UNCHANGED <<issued, rendered>>
    ELSE IF NeedsSchemaFetch(hasPre)
    THEN /\ dom' = dom
         /\ pc' = "awaitSchema"
         /\ params' = p
         /\ inflight' = Append(net, SchemaRequest(p))
         /\ issued' = [issued EXCEPT !.schema = @ + 1]
         /\ UNCHANGED rendered
    ELSE /\ dom' = RenderOrCatch(dom, pre)
         /\ pc' = "done"
         /\ params' = NoParams
         /\ inflight' = net
         /\ rendered' = IF RenderThrows(pre) THEN rendered ELSE Append(rendered, pre)
         /\ UNCHANGED issued

\* lines 68-97 up to the await of line 86, or to the end: p are the
\* resolved params, pre the pre-generated schema, net the requests in flight
Resolved(p, hasPre, pre, net) ==
    IF MissingFields(p)
    THEN /\ dom' = ShowError(dom, MissingFieldsMsg)
         /\ pc' = "done"
         /\ params' = NoParams
         /\ inflight' = net
         /\ UNCHANGED <<issued, rendered>>
    ELSE IF NeedsSchemaFetch(hasPre)
    THEN /\ dom' = ShowSection(dom, "loading")
         /\ pc' = "awaitSchema"
         /\ params' = p
         /\ inflight' = Append(net, SchemaRequest(p))
         /\ issued' = [issued EXCEPT !.schema = @ + 1]
         /\ UNCHANGED rendered
    ELSE /\ dom' = RenderOrCatch(ShowSection(dom, "loading"), pre)
         /\ pc' = "done"
         /\ params' = NoParams
         /\ inflight' = net
         /\ rendered' = IF RenderThrows(pre) THEN rendered ELSE Append(rendered, pre)
         /\ UNCHANGED issued

\* PageLoad with the lookup not awaited: the schema request is issued
\* while the lookup is pending
PageLoadNoAwait ==
    /\ pc = "start"
    /\ LET p == GetUrlParams(location) IN
       IF NeedsLookup(p)
       THEN /\ dom' = ShowSection(dom, "loading")
            /\ pc' = "awaitConfig"
            /\ params' = p
            /\ inflight' = <<ConfigRequest(p.sessionId), SchemaRequest(p)>>
            /\ issued' = [issued EXCEPT !.config = @ + 1, !.schema = @ + 1]
            /\ UNCHANGED rendered
       ELSE Resolved(p, FALSE, NoSchemaData, inflight)
    /\ UNCHANGED <<location, submitEvents, lookup, answered>>

\* DOMContentLoaded: generateForm up to its first await, or to its end
PageLoad ==
    /\ pc = "start"
    /\ LET p == GetUrlParams(location) IN
       IF NeedsLookup(p)
       THEN /\ dom' = ShowSection(dom, "loading")
            /\ pc' = "awaitConfig"
            /\ params' = p
            /\ inflight' = Append(inflight, ConfigRequest(p.sessionId))
            /\ issued' = [issued EXCEPT !.config = @ + 1]
            /\ UNCHANGED rendered
       ELSE Resolved(p, FALSE, NoSchemaData, inflight)
    /\ UNCHANGED <<location, submitEvents, lookup, answered>>

Thrown(message) == [threw |-> TRUE, message |-> message]
NotThrown == [threw |-> FALSE, message |-> ""]

\* lines 47-61: what the try block throws on a config response
ConfigThrow(r) ==
    IF r.kind = "reject" THEN Thrown(FetchRejectMsg)
    ELSE IF r.kind = "badjson" THEN Thrown(JsonErrorMsg)
    ELSE IF ~r.ok \/ ~r.body.success
    THEN Thrown(IF r.body.error # "" THEN r.body.error ELSE "Form config not found")
    ELSE IF ~r.body.hasFields THEN Thrown(TypeErrorMsg)
    ELSE NotThrown

IndexOf(ep) == {i \in DOMAIN inflight : inflight[i].ep = ep}

\* lines 62-65: the lookup failed
ConfigFailure ==
    /\ pc = "awaitConfig"
    /\ \E i \in IndexOf("form-config"), r \in ConfigResponses :
          /\ ConfigThrow(r).threw
          /\ dom' = ShowError(dom, "Error: " \o ConfigThrow(r).message)
          /\ inflight' = Remove(inflight, i)
          /\ answered' = Answer(inflight[i], r)
    /\ pc' = "done"
    /\ params' = NoParams
    /\ UNCHANGED <<location, issued, submitEvents, lookup, rendered>>

\* lines 54-61, then 68-97
ConfigSuccess ==
    /\ pc = "awaitConfig"
    /\ \E i \in IndexOf("form-config"), r \in ConfigResponses :
          /\ ~ConfigThrow(r).threw
          /\ lookup' = Append(lookup, r.body)
          /\ answered' = Answer(inflight[i], r)
          /\ Resolved([params EXCEPT !.fields = Join(r.body.fields),
                                     !.context = r.body.context],
                      r.body.hasSchema, r.body.schema, Remove(inflight, i))
    /\ UNCHANGED <<location, submitEvents>>

\* SchemaThrow without the fallback text of line 90
SchemaThrowNoFallback(r) ==
    IF r.kind = "reject" THEN Thrown(FetchRejectMsg)
    ELSE IF r.kind = "badjson" THEN Thrown(JsonErrorMsg)
    ELSE IF ~r.ok THEN Thrown(r.body.error)
    ELSE NotThrown

\* lines 86-91: what the try block throws on a schema response
SchemaThrow(r) ==
    IF r.kind = "reject" THEN Thrown(FetchRejectMsg)
    ELSE IF r.kind = "badjson" THEN Thrown(JsonErrorMsg)
    ELSE IF ~r.ok
    THEN Thrown(IF r.body.error # "" THEN r.body.error ELSE "Failed to generate form")
    ELSE NotThrown

\* SchemaFailure that fetches the schema again after showing the error
SchemaFailureRetry ==
    /\ pc = "awaitSchema"
    /\ \E i \in IndexOf("schema"), r \in SchemaResponses :
          /\ SchemaThrow(r).threw
          /\ dom' = ShowError(dom, "Error generating form: " \o SchemaThrow(r).message)
          /\ inflight' = Append(Remove(inflight, i), inflight[i])
          /\ answered' = Answer(inflight[i], r)
    /\ issued' = [issued EXCEPT !.schema = @ + 1]
    /\ UNCHANGED <<location, pc, params, submitEvents, lookup, rendered>>

\* lines 95-97: the schema request failed
SchemaFailure ==
    /\ pc = "awaitSchema"
    /\ \E i \in IndexOf("schema"), r \in SchemaResponses :
          /\ SchemaThrow(r).threw
          /\ dom' = ShowError(dom, "Error generating form: " \o SchemaThrow(r).message)
          /\ inflight' = Remove(inflight, i)
          /\ answered' = Answer(inflight[i], r)
    /\ pc' = "done"
    /\ params' = NoParams
    /\ UNCHANGED <<location, issued, submitEvents, lookup, rendered>>

\* lines 86-94: the body of a successful response is handed to renderForm
SchemaRendered(r) ==
    /\ pc = "awaitSchema"
    /\ \E i \in IndexOf("schema") :
          /\ ~SchemaThrow(r).threw
          /\ dom' = RenderOrCatch(dom, r.body)
          /\ rendered' = IF RenderThrows(r.body) THEN rendered ELSE Append(rendered, r.body)
          /\ inflight' = Remove(inflight, i)
          /\ answered' = Answer(inflight[i], r)
    /\ pc' = "done"
    /\ params' = NoParams
    /\ UNCHANGED <<location, issued, submitEvents, lookup>>

SchemaSuccess == \E r \in SchemaResponses : SchemaRendered(r)

\* --------------------------------------------------------- submit handler
\* lines 206-236: a submit event of the displayed form, up to the await
Submit ==
    /\ pc # "start"
    /\ "form-container" \in dom.visible
    /\ submitEvents < MaxSubmits
    /\ \E st \in FormStates(dom.formFields) :
          /\ CheckValidity(dom.formFields, st)
          /\ inflight' = Append(inflight,
                 SubmitRequest(BuildData(dom.formFields, st, location), st))
    /\ issued' = [issued EXCEPT !.submit = @ + 1]
    /\ submitEvents' = submitEvents + 1
    /\ UNCHANGED <<location, pc, params, dom, lookup, rendered, answered>>

\* SubmitThrow without the response.ok test of line 240
SubmitThrowIgnoreStatus(r) ==
    IF r.kind = "reject" THEN Thrown(FetchRejectMsg)
    ELSE IF r.kind = "badjson" THEN Thrown(JsonErrorMsg)
    ELSE NotThrown

\* lines 238-242: what the try block throws on a submit response
SubmitThrow(r) ==
    IF r.kind = "reject" THEN Thrown(FetchRejectMsg)
    ELSE IF r.kind = "badjson" THEN Thrown(JsonErrorMsg)
    ELSE IF ~r.ok
    THEN Thrown(IF r.body # "" THEN r.body ELSE "Failed to submit form")
    ELSE NotThrown

\* SubmitFailure that posts the payload again after showing the error
SubmitFailureRetry ==
    /\ \E i \in IndexOf("submit"), r \in SubmitResponses :
          /\ SubmitThrow(r).threw
          /\ dom' = ShowError(dom, "Error submitting form: " \o SubmitThrow(r).message)
          /\ inflight' = Append(Remove(inflight, i), inflight[i])
          /\ answered' = Answer(inflight[i], r)
    /\ issued' = [issued EXCEPT !.submit = @ + 1]
    /\ UNCHANGED <<location, pc, params, submitEvents, lookup, rendered>>

\* lines 250-252
SubmitFailure ==
    /\ \E i \in IndexOf("submit"), r \in SubmitResponses :
          /\ SubmitThrow(r).threw
          /\ dom' = ShowError(dom, "Error submitting form: " \o SubmitThrow(r).message)
          /\ inflight' = Remove(inflight, i)
          /\ answered' = Answer(inflight[i], r)
    /\ UNCHANGED <<location, pc, params, issued, submitEvents, lookup, rendered>>

\* SubmitSuccess that echoes the payload of the submit issued last
SubmitSuccessEchoLatest ==
    /\ \E i \in IndexOf("submit"), r \in SubmitResponses :
          /\ ~SubmitThrow(r).threw
          /\ dom' = ShowSection([dom EXCEPT
                                   !.successTitle = dom.formTitle,
                                   !.outputJson = JsonPretty(inflight[Len(inflight)].data)],
                                "success-container")
          /\ inflight' = Remove(inflight, i)
          /\ answered' = Answer(inflight[i], r)
    /\ UNCHANGED <<location, pc, params, issued, submitEvents, lookup, rendered>>

\* lines 244-249
SubmitSuccess ==
    /\ \E i \in IndexOf("submit"), r \in SubmitResponses :
          /\ ~SubmitThrow(r).threw
          /\ dom' = ShowSection([dom EXCEPT
                                   !.successTitle = dom.formTitle,
                                   !.outputJson = JsonPretty(inflight[i].data)],
                                "success-container")
          /\ inflight' = Remove(inflight, i)
          /\ answered' = Answer(inflight[i], r)
    /\ UNCHANGED <<location, pc, params, issued, submitEvents, lookup, rendered>>

\* FillAgain that runs generateForm again: the schema is fetched anew
FillAgainReload ==
    /\ pc # "start"
    /\ "success-container" \in dom.visible
    /\ dom' = ShowSection(dom, "form-container")
    /\ inflight' = Append(inflight, SchemaRequest(GetUrlParams(location)))
    /\ issued' = [issued EXCEPT !.schema = @ + 1]
    /\ UNCHANGED <<location, pc, params, submitEvents, lookup, rendered, answered>>

\* lines 256-258: a click on the fill-again button of the success section
FillAgain ==
    /\ pc # "start"
    /\ "success-container" \in dom.visible
    /\ dom' = ShowSection(dom, "form-container")
    /\ UNCHANGED <<location, pc, params, inflight, issued, submitEvents, lookup, rendered, answered>>

Next ==
    \/ PageLoad
    \/ ConfigFailure
    \/ ConfigSuccess
    \/ SchemaFailure
    \/ SchemaSuccess
    \/ Submit
    \/ SubmitFailure
    \/ SubmitSuccess
    \/ FillAgain

Spec == Init /\ [][Next]_vars

\* the page load under the browser's scheduling: DOMContentLoaded fires
\* (lines 260-263) and each fetch awaited by generateForm settles, resuming
\* it (lines 47-48, 86-87); nothing is assumed about the submit requests
FairSpec ==
    /\ Spec
    /\ WF_vars(PageLoad)
    /\ WF_vars(ConfigFailure \/ ConfigSuccess)
    /\ WF_vars(SchemaFailure \/ SchemaSuccess)

\* ------------------------------------------- renderForm on many schemas
\* The first property of a schema ranges over every combination of type,
\* format, enum, widget hint and placeholder hint; the properties after it
\* are one of each kind of control.
FirstProps ==
    {Property(PropertyNames[1], FieldSchema(t, f, e), UiField(w, p)) :
        t \in Types, f \in Formats, e \in BOOLEAN, w \in UiWidgets, p \in {"", "hint"}}

LaterKinds ==
    {<<FieldSchema("string", "", TRUE), UiField("", "")>>,
     <<FieldSchema("boolean", "", FALSE), UiField("", "")>>,
     <<FieldSchema("number", "", FALSE), UiField("", "")>>,
     <<FieldSchema("string", "password", FALSE), UiField("", "")>>,
     <<FieldSchema("string", "", FALSE), UiField("textarea", "")>>,
     <<FieldSchema("string", "", FALSE), UiField("", "")>>}

\* the properties object with first property f and later properties ks
PropsFrom(n, f, ks) ==
    [i \in 1..n |-> IF i = 1 THEN f ELSE Property(PropertyNames[i], ks[i][1], ks[i][2])]

NamesOf(props) == {props[i].name : i \in DOMAIN props}

DirectLocation == Location("name,email", "", "", RootPath)

InitRender == Init /\ location = DirectLocation

\* a successful schema response carrying any FormSchema over these
\* properties with required a subset of its property names, or a body that
\* is no FormSchema
RenderSchema ==
    /\ pc = "awaitSchema"
    /\ \/ \E n \in 0..MaxFields, f \in FirstProps :
             \E ks \in [2..n -> LaterKinds] :
                \E req \in SUBSET NamesOf(PropsFrom(n, f, ks)) :
                   SchemaRendered(Response("json", TRUE,
                       SchemaData("Sign up", TRUE, PropsFrom(n, f, ks), req, TRUE, "")))
       \/ \E sd \in BrokenSchemas : SchemaRendered(Response("json", TRUE, sd))

NextRender ==
    \/ PageLoad
    \/ RenderSchema

SpecRender == InitRender /\ [][NextRender]_vars

\* ================================================================ claims
Submits == IndexOf("submit")

SessionId == GetUrlParams(location).sessionId

\* the schema whose controls are displayed
LastRendered == rendered[Len(rendered)]

\* C1: in every posted payload, each toggle control that was left unchecked
\* has its key present with the value false.
C1_UncheckedToggleIsFalse ==
    \A i \in Submits : \A k \in DOMAIN dom.formFields :
        LET control == dom.formFields[k].input IN
        (control.type = "checkbox" /\ ~inflight[i].form[k].checked)
            => /\ HasKey(inflight[i].data, control.name)
               /\ Get(inflight[i].data, control.name) = JBool(FALSE)

\* C2: in every posted payload, each field of schema type integer or number
\* without enum has the value null when its control was left empty and the
\* parsed number otherwise.
C2_NumericIsNumberOrNull ==
    \A i \in Submits : \A k \in DOMAIN dom.formFields :
        LET fs == LastRendered.properties[k].fieldSchema
            name == LastRendered.properties[k].name
            typed == inflight[i].form[k].value IN
        (fs.type \in {"integer", "number"} /\ ~fs.hasEnum)
            => /\ HasKey(inflight[i].data, name)
               /\ Get(inflight[i].data, name) =
                     IF typed = "" THEN JNull ELSE ParseFloat(typed)

\* C3: every posted payload has _session_id equal to the page's session id
\* when there is one, and no _session_id key when there is none.
C3_SessionIdKeyIffSession ==
    \A i \in Submits :
        IF SessionId # ""
        THEN /\ HasKey(inflight[i].data, "_session_id")
             /\ Get(inflight[i].data, "_session_id") = JStr(SessionId)
        ELSE ~HasKey(inflight[i].data, "_session_id")

\* rules 1-3 of the widget selection for property k of the rendered schema
FirstRulesAt(k) ==
    LET fs == LastRendered.properties[k].fieldSchema
        control == dom.formFields[k].input IN
    /\ fs.hasEnum => control.tag = "select"
    /\ (~fs.hasEnum /\ fs.type = "boolean") => control.type = "checkbox"
    /\ (~fs.hasEnum /\ fs.type \in {"integer", "number"})
          => (control.tag = "input" /\ control.type = "text")

\* property k is decided by rules 4-6
FreeTextAt(k) ==
    LET fs == LastRendered.properties[k].fieldSchema IN
    ~fs.hasEnum /\ fs.type \notin {"boolean", "integer", "number"}

\* C4 as claimed: a free-text field is masked whenever the UI-hint widget or
\* the format is "password", and is a textarea only when neither is and the
\* UI-hint widget is "textarea".
C4_PasswordIfHintOrFormat ==
    rendered # <<>> =>
        \A k \in DOMAIN dom.formFields :
            LET fs == LastRendered.properties[k].fieldSchema
                ui == LastRendered.properties[k].ui
                control == dom.formFields[k].input
                rule4 == ui.widget = "password" \/ fs.format = "password" IN
            /\ FirstRulesAt(k)
            /\ FreeTextAt(k) =>
                  /\ rule4 => control.type = "password"
                  /\ control.tag = "textarea" => (~rule4 /\ ui.widget = "textarea")

\* C4 as amended: rules 4 and 5 test one effective widget, the UI-hint widget
\* when set, else the format when set, else the type; a free-text field is
\* masked exactly when it is "password" and a textarea exactly when it is
\* "textarea".
C4_PasswordIfEffectiveWidget ==
    rendered # <<>> =>
        \A k \in DOMAIN dom.formFields :
            LET fs == LastRendered.properties[k].fieldSchema
                ui == LastRendered.properties[k].ui
                control == dom.formFields[k].input
                effective == IF ui.widget # "" THEN ui.widget
                             ELSE IF fs.format # "" THEN fs.format ELSE fs.type IN
            /\ FirstRulesAt(k)
            /\ FreeTextAt(k) =>
                  /\ control.type = "password" <=> effective = "password"
                  /\ control.tag = "textarea" <=> effective = "textarea"
                  /\ effective \notin {"password", "textarea"}
                        => (control.tag = "input" /\ control.type = "text")

\* a textarea rendered for a field whose format is "password"
C4_Witness ==
    /\ rendered # <<>>
    /\ \E k \in DOMAIN dom.formFields :
          /\ FreeTextAt(k)
          /\ LastRendered.properties[k].ui.widget = "textarea"
          /\ LastRendered.properties[k].fieldSchema.format = "password"
          /\ dom.formFields[k].input.tag = "textarea"

\* C5: renderForm produces exactly one labeled control per property, in the
\* order of the properties, and a control is required iff its name is in
\* required and it is not a checkbox.
C5_OneControlPerProperty ==
    rendered # <<>> =>
        /\ Len(dom.formFields) = Len(LastRendered.properties)
        /\ \A k \in DOMAIN dom.formFields :
              LET name == LastRendered.properties[k].name
                  div == dom.formFields[k] IN
              /\ div.for = name
              /\ div.input.name = name
              /\ div.input.required <=>
                    (name \in LastRendered.required /\ div.input.type # "checkbox")

\* a schema of two properties, a required toggle first
C5_Witness ==
    /\ rendered # <<>>
    /\ Len(dom.formFields) >= 2
    /\ dom.formFields[1].input.type = "checkbox"
    /\ LastRendered.properties[1].name \in LastRendered.required
    /\ dom.formFields[2].input.required

\* C6: once page initialisation has started, exactly one of the four
\* sections is visible.
C6_ExactlyOneVisible ==
    pc # "start" => (dom.visible \subseteq Sections /\ Cardinality(dom.visible) = 1)

\* Error shown after an earlier submit had succeeded
C6_Witness ==
    /\ dom.visible = {"error"}
    /\ dom.outputJson # ""

\* C7 as claimed: at most one request is in flight.
C7_AtMostOneInFlight == Len(inflight) <= 1

\* C7 as amended: requests in flight at the same time are all submits.
C7_OnlySubmitsOverlap ==
    \A i, j \in DOMAIN inflight :
        i # j => (inflight[i].ep = "submit" /\ inflight[j].ep = "submit")

\* two submits pending at once
C7_Witness == Cardinality(Submits) >= 2

\* C8 as claimed: once Error is shown, no request is issued and no event
\* moves the view out of Error.
C8_ErrorIsTerminal ==
    [][(pc # "start" /\ dom.visible = {"error"})
         => (dom'.visible = {"error"} /\ issued' = issued)]_vars

\* C8 as amended: once Error is shown no request is issued; the view leaves
\* Error only for Success, on the response to a submit that was pending.
C8_ErrorLeftOnlyByPendingSubmit ==
    [][(pc # "start" /\ dom.visible = {"error"})
         => /\ issued' = issued
            /\ Submits = {} => dom'.visible = {"error"}
            /\ dom'.visible # {"error"}
                  => (dom'.visible = {"success-container"} /\ Len(inflight') < Len(inflight))]_vars

\* Error shown while a submit is still pending
C8_Witness ==
    /\ pc # "start"
    /\ dom.visible = {"error"}
    /\ Submits # {}

\* C9: after a lookup that returned fields and a schema, no schema request
\* is ever issued and the schema of the lookup is the one rendered; the view
\* is Form until a submit is made.
C9_PreGeneratedSchemaSkipsFetch ==
    \A n \in DOMAIN lookup :
        (lookup[n].hasSchema /\ Join(lookup[n].fields) # "")
            => /\ issued.schema = 0
               /\ ~RenderThrows(lookup[n].schema)
                     => /\ rendered = <<lookup[n].schema>>
                        /\ dom.formTitle = lookup[n].schema.title
                        /\ dom.formFields = RenderedFields(lookup[n].schema)
                        /\ issued.submit = 0 => dom.visible = {"form-container"}

\* the form of a pre-generated schema on display
C9_Witness ==
    /\ lookup # <<>>
    /\ lookup[1].hasSchema
    /\ dom.visible = {"form-container"}
    /\ Len(dom.formFields) >= 1

\* generateForm has returned with no fields resolved
ResolvedEmpty ==
    /\ pc = "done"
    /\ \/ ~NeedsLookup(GetUrlParams(location)) /\ location.fields = ""
       \/ lookup # <<>> /\ Join(lookup[1].fields) = ""

\* C10: when no fields are resolved the view is Error with the fixed
\* message, no schema request is made and nothing is rendered; without a
\* short-form path match no request is made at all.
C10_MissingFieldsError ==
    ResolvedEmpty =>
        /\ dom.visible = {"error"}
        /\ dom.errorMessage = MissingFieldsMsg
        /\ issued.schema = 0
        /\ issued.submit = 0
        /\ rendered = <<>>
        /\ dom.formFields = <<>>
        /\ ShortUrlMatch(location.path) = ""
              => (issued = [config |-> 0, schema |-> 0, submit |-> 0] /\ inflight = <<>>)

\* a lookup that succeeded with an empty list of fields
C10_Witness ==
    /\ ResolvedEmpty
    /\ lookup # <<>>
    /\ issued.config = 1

\* ---------------------------------------------------------------------------
\* C11: every step into the success section that handles a response shows the
\* title of the rendered form and the pretty-printed payload of the very
\* request that response answers, also while other submits are pending.
C11_SuccessEchoesOwnPayload ==
    [][(dom'.visible = {"success-container"} /\ Len(inflight') < Len(inflight))
         => /\ dom'.successTitle = dom.formTitle
            /\ dom'.successTitle = LastRendered.title
            /\ \E i \in Submits :
                  /\ inflight' = Remove(inflight, i)
                  /\ answered' = Answer(inflight[i], answered'[1].response)
                  /\ dom'.outputJson = JsonPretty(inflight[i].data)]_vars

\* the success section shows one payload while a submit with another payload
\* is still pending
C11_Witness ==
    /\ dom.visible = {"success-container"}
    /\ answered # <<>>
    /\ answered[1].ep = "submit"
    /\ \E i \in Submits : JsonPretty(inflight[i].data) # dom.outputJson

\* ---------------------------------------------------------------------------
\* C12: nothing is retried: a page load issues at most one config lookup and
\* at most one schema request, and the number of /api/submit requests issued
\* equals the number of submit events, whatever failed before.
C12_NoRetry ==
    /\ issued.config <= 1
    /\ issued.schema <= 1
    /\ issued.submit = submitEvents
    /\ Len(inflight) <= issued.config + issued.schema + issued.submit

\* two submits were both answered by failures and nothing is pending
C12_Witness ==
    /\ issued.submit = 2
    /\ inflight = <<>>
    /\ dom.visible = {"error"}
    /\ answered[1].ep = "submit"
    /\ SubmitThrow(answered[1].response).threw

\* ---------------------------------------------------------------------------
\* C13: on a path /form/{segment} the session id is that segment: the lookup
\* is issued for the segment and every posted payload carries it under
\* _session_id, also when the query string has a different session_id.
C13_ShortPathSegmentIsSessionId ==
    (pc # "start" /\ ShortUrlMatch(location.path) # "")
      => /\ GetUrlParams(location).isShortUrl
         /\ SessionId = ShortUrlMatch(location.path)
         /\ \A i \in IndexOf("form-config") :
               inflight[i].arg.sessionId = ShortUrlMatch(location.path)
         /\ \A i \in Submits :
               /\ HasKey(inflight[i].data, "_session_id")
               /\ Get(inflight[i].data, "_session_id") = JStr(ShortUrlMatch(location.path))

\* ---------------------------------------------------------------------------
\* the number of requests issued so far
Total(n) == n.config + n.schema + n.submit

\* a step in which a handler resumed with the response to a pending request
ResponseHandled ==
    Len(inflight) + Total(issued') - Total(issued) > Len(inflight')

\* a response that is a failure: a transport failure, an unparsable body, a
\* non-2xx status, a failure flag, a body without the expected members, or a
\* schema on which renderForm raises an exception
FailedResponse(a) ==
    \/ a.response.kind \in {"reject", "badjson"}
    \/ ~a.response.ok
    \/ /\ a.ep = "form-config"
       /\ \/ ~a.response.body.success
          \/ ~a.response.body.hasFields
          \/ a.response.body.hasSchema /\ RenderThrows(a.response.body.schema)
    \/ a.ep = "schema" /\ RenderThrows(a.response.body)

\* C14: every failed response of the lookup, the schema request or a submit
\* leaves exactly the error section visible with a non-empty message, and a
\* page load that ended without a rendered form shows the error section
\* with a non-empty message.
C14_FailureShowsError ==
    /\ [][(ResponseHandled /\ FailedResponse(answered'[1]))
            => (dom'.visible = {"error"} /\ dom'.errorMessage # "")]_vars
    /\ []((pc = "done" /\ rendered = <<>>)
            => (dom.visible = {"error"} /\ dom.errorMessage # ""))

\* the error section is shown after a 2xx schema response whose body made
\* renderForm raise an exception
C14_Witness ==
    /\ answered # <<>>
    /\ answered[1].ep = "schema"
    /\ answered[1].response.kind = "json"
    /\ answered[1].response.ok
    /\ RenderThrows(answered[1].response.body)
    /\ dom.visible = {"error"}
    /\ dom.errorMessage # ""

\* ---------------------------------------------------------------------------
\* a step in which generateForm resumed with the response to its schema request
SchemaResponseHandled ==
    /\ ResponseHandled
    /\ pc = "awaitSchema"
    /\ answered'[1].ep = "schema"

\* a schema response that is not a success: a transport error, a non-2xx
\* status, or a body with an error string
NonSuccess(r) == r.kind = "reject" \/ ~r.ok \/ (r.kind = "json" /\ r.body.error # "")

\* the string the server supplied with a response, if any
ServerError(r) == IF r.kind = "json" THEN r.body.error ELSE ""

C16_FillAgainOnlyShowsForm ==
    [][(pc # "start" /\ dom.visible = {"success-container"}
          /\ dom'.visible = {"form-container"})
         => /\ dom' = ShowSection(dom, "form-container")
            /\ dom'.formFields = RenderedFields(LastRendered)
            /\ dom'.formTitle = LastRendered.title
            /\ issued' = issued
            /\ inflight' = inflight
            /\ rendered' = rendered
            /\ answered' = answered]_vars

\* the form is shown again after a successful submit
C16_Witness ==
    /\ dom.visible = {"form-container"}
    /\ dom.outputJson # ""
    /\ answered # <<>>
    /\ answered[1].ep = "submit"
    /\ ~SubmitThrow(answered[1].response).threw

\* ---------------------------------------------------------------------------
\* C17: while the config lookup or the schema request is pending, the
\* loading section is the one visible section.
C17_LoadingWhilePending ==
    (IndexOf("form-config") \cup IndexOf("schema") # {})
      => dom.visible = {"loading"}

\* the schema request is pending after a successful lookup
C17_Witness ==
    /\ IndexOf("schema") # {}
    /\ lookup # <<>>
    /\ dom.visible = {"loading"}

\* ---------------------------------------------------------------------------
\* C18: when the requests of the page load are answered, the page load ends
\* with the form section or the error section visible; once it has ended
\* the loading section is never visible again; and the success section is
\* only ever visible after a form has been rendered and shown.
C18_LoadEndsInFormOrError ==
    /\ <>(pc = "done" /\ (dom.visible = {"form-container"} \/ dom.visible = {"error"}))
    /\ [](pc = "done" => dom.visible # {"loading"})
    /\ []((pc # "start" /\ "success-container" \in dom.visible) => rendered # <<>>)

\* the page load went through both requests and ended with the form shown
C18_Witness ==
    /\ pc = "done"
    /\ issued.config = 1
    /\ issued.schema = 1
    /\ inflight = <<>>
    /\ dom.visible = {"form-container"}

\* ---------------------------------------------------------------------------
\* C19: after the page load started, the form section or the success
\* section is visible only when renderForm has completed, and the form then
\* holds the controls of the schema rendered last; the form section becomes
\* visible only by a completed renderForm or by fill-again from the success
\* section; and a submit request is only issued from a rendered, visible form.
C19_FormOnlyAfterRender ==
    /\ []((pc # "start" /\ dom.visible \cap {"form-container", "success-container"} # {})
            => /\ rendered # <<>>
               /\ dom.formFields = RenderedFields(LastRendered)
               /\ dom.formTitle = LastRendered.title)
    /\ [][(dom.visible # {"form-container"} /\ dom'.visible = {"form-container"})
            => \/ /\ Len(rendered') = Len(rendered) + 1
                  /\ dom'.formFields = RenderedFields(rendered'[Len(rendered')])
               \/ /\ dom.visible = {"success-container"}
                  /\ rendered' = rendered
                  /\ inflight' = inflight
                  /\ dom'.formFields = dom.formFields]_vars
    /\ [][(issued'.submit # issued.submit)
            => (rendered # <<>> /\ dom.visible = {"form-container"})]_vars

\* a submit is pending for a form rendered from a fetched schema
C19_Witness ==
    /\ Submits # {}
    /\ issued.schema = 1
    /\ rendered # <<>>
    /\ dom.visible = {"form-container"}

====
